---- MODULE Spec2Model ----
(***************************************************************************)
(* A model of the privdrop crate: the PrivDrop builder and the apply()     *)
(* pipeline (preload, lookup_ids, do_chroot, do_idchange) of               *)
(* src/src/privdrop.rs, run against a small operating system: a user and a *)
(* group database, and the process-wide identity and root/working          *)
(* directory that the kernel keeps.                                        *)
(*                                                                         *)
(* Option<T> is modelled as a sequence: <<>> is None, <<v>> is Some(v).    *)
(* Names are sequences of characters, so that parsing a name as a number   *)
(* is computed and not assumed.  Paths are sequences of components of an   *)
(* absolute path; <<>> is "/".                                             *)
(***************************************************************************)
EXTENDS Integers, Sequences, FiniteSets, TLC

VARIABLES
    cfg,            \* the PrivDrop value (builder fields)
    pc,             \* position of the caller / of apply()
    phase,          \* the step of apply() being run (or the one it ended in)
    ids,            \* UserIds: the resolved identity
    bufsize,        \* size of the lookup buffer of the lookup in progress
    list_acc,       \* lookup_ids: the gids pushed so far for the group list
    groups,         \* do_idchange: the Vec `groups`
    unique_groups,  \* do_idchange: the Vec handed to setgroups
    chroot_dir,     \* do_chroot: the path taken out of self.chroot
    result,         \* what apply() returned
    euid, egid, sgroups, root, cwd,   \* process state kept by the kernel
    trace,          \* library and system calls issued by the current apply()
    entry,          \* configuration and process state when apply() was entered
    applies,        \* number of apply() calls started
    dropped,        \* an earlier apply() succeeded in leaving root
    answer,         \* what the C library answered to the last lookup call
    prev,           \* the step and the result the apply() call before ended with
    log             \* the setter calls made on the PrivDrop value being built

vars == <<cfg, pc, phase, ids, bufsize, list_acc, groups, unique_groups, chroot_dir,
          result, euid, egid, sgroups, root, cwd, trace, entry, applies, dropped,
          answer, prev, log>>

local_vars == <<ids, bufsize, list_acc, groups, unique_groups, chroot_dir, answer>>
hist_vars == <<entry, applies, dropped, prev, log>>

os_vars == <<euid, egid, sgroups, root, cwd>>

-----------------------------------------------------------------------------
(* Bounds of the model *)

\* longest group list handed to group_list()
MaxListLen == 2
\* number of apply() calls a behaviour may make
MaxApplies == 2
\* number of setter calls recorded for one PrivDrop value
MaxSetterCalls == 3
\* number of times the buffer of a lookup can be doubled before a buffer of
\* the next size can no longer be allocated
MaxRetries == 1

-----------------------------------------------------------------------------
(* Option *)

None == <<>>
Some(v) == <<v>>
IsSome(o) == o # <<>>
Unwrap(o) == o[1]

Range(s) == {s[i] : i \in DOMAIN s}

-----------------------------------------------------------------------------
(* Program constants *)

INITIAL_BUFFER_SIZE == 4096

\* libc::uid_t and libc::gid_t are u32: u32::MAX is 10 * U32MaxDiv10 + U32MaxMod10
U32MaxDiv10 == 429496729
U32MaxMod10 == 5

-----------------------------------------------------------------------------
(* The operating system: identity databases and inputs *)

svc == <<"s", "v", "c">>
g1 == <<"g", "1">>
g2 == <<"g", "2">>
g3 == <<"g", "3">>
num7 == <<"7">>
num9 == <<"9">>
ghost == <<"x">>
num0 == <<"0">>

\* /etc/passwd: name -> (pw_uid, pw_gid)
PasswdDb == (svc :> [pw_uid |-> 1000, pw_gid |-> 100])

\* /etc/group: name -> gr_gid
GroupDb == (svc :> 100) @@ (g1 :> 101) @@ (g2 :> 102) @@ (g3 :> 103)

\* gids of the groups that list a user as a member, in database order
Members(user) == IF user = svc THEN <<102, 103>> ELSE <<>>

UserInputs == {svc, num7, ghost}
GroupInputs == {g1, num9, ghost}
ListInputs == {g1, g2, ghost}
ChrootInputs == {<<"var", "empty">>}

GroupLists == UNION {[1..n -> ListInputs] : n \in 0..MaxListLen}

\* what the callers of a process that applies more than once configure
ReapplyUserInputs == {svc, num0}
ReapplyGroupInputs == {g1}
ReapplyGroupLists == {<<g2>>}

\* names that exercise the numeric fallback: a sign, leading zeros, a value
\* one above u32::MAX, digits followed by a letter
plus7 == <<"+", "7">>
minus1 == <<"-", "1">>
lead0 == <<"0", "0", "7">>
big == <<"4", "2", "9", "4", "9", "6", "7", "2", "9", "6">>
mixed == <<"7", "x">>

ResolveUserInputs == {svc, num7, plus7, minus1, lead0, big, mixed, ghost}
ResolveGroupInputs == {g1, num9, plus7, minus1, big, ghost}
ResolveGroupLists == {<<g2>>, <<lead0>>, <<g2, mixed>>}

-----------------------------------------------------------------------------
(* Errors (src/src/errors.rs) and results of apply() *)

NoResult == [tag |-> "None", repr |-> "", kind |-> "", desc |-> ""]
OkResult == [tag |-> "Ok", repr |-> "", kind |-> "", desc |-> ""]
WithDescription(kind, description) ==
    [tag |-> "Err", repr |-> "WithDescription", kind |-> kind, desc |-> description]
FromNix(e) == [tag |-> "Err", repr |-> "FromNix", kind |-> "", desc |-> e]
SysError(description) == WithDescription("SysError", description)

IsErr(r) == r.tag = "Err"
IsOk(r) == r.tag = "Ok"

RootRequired == SysError("Starting this application requires root privileges")
NoDefaultGroups ==
    SysError("Unable to determine default supplementary groups without a user name and a base gid")

-----------------------------------------------------------------------------
(* Names: encoding for the C library, and parsing as a numeric id *)

\* CString::new fails on an interior NUL byte
HasNul(name) == \E i \in DOMAIN name : name[i] = "NUL"

\* OsStr::to_str fails on bytes that are not UTF-8
IsUtf8(name) == \A i \in DOMAIN name : name[i] # "0xFF"

Digits == ("0" :> 0) @@ ("1" :> 1) @@ ("2" :> 2) @@ ("3" :> 3) @@ ("4" :> 4) @@
          ("5" :> 5) @@ ("6" :> 6) @@ ("7" :> 7) @@ ("8" :> 8) @@ ("9" :> 9)

\* value of a digit string read left to right; -1 when a character is no
\* digit or the value leaves u32 (checked_mul, checked_add)
RECURSIVE DigitsValue(_, _)
DigitsValue(s, acc) ==
    IF s = <<>> THEN acc
    ELSE IF Head(s) \notin DOMAIN Digits THEN -1
    ELSE IF acc > U32MaxDiv10 \/ (acc = U32MaxDiv10 /\ Digits[Head(s)] > U32MaxMod10)
    THEN -1
    ELSE DigitsValue(Tail(s), acc * 10 + Digits[Head(s)])

\* str::parse::<u32>: an optional '+', then at least one digit
ParseId(s) ==
    LET body == IF s # <<>> /\ Head(s) = "+" THEN Tail(s) ELSE s
        v == IF body = <<>> THEN -1 ELSE DigitsValue(body, 0)
    IN  IF v < 0 THEN None ELSE Some(v)

-----------------------------------------------------------------------------
(* Answers of the C library to one lookup call (after the ERANGE retries) *)

GetpwnamAnswers(name) ==
    (IF name \in DOMAIN PasswdDb
        THEN {[ret |-> "0", ent |-> Some(PasswdDb[name])]}
        ELSE {[ret |-> "0", ent |-> None], [ret |-> "ENOENT", ent |-> None]})
    \cup {[ret |-> "EIO", ent |-> None]}

GetgrnamAnswers(name) ==
    (IF name \in DOMAIN GroupDb
        THEN {[ret |-> "0", ent |-> Some(GroupDb[name])]}
        ELSE {[ret |-> "0", ent |-> None], [ret |-> "ENOENT", ent |-> None]})
    \cup {[ret |-> "EIO", ent |-> None]}

\* getgrouplist(user, gid), called twice: the first call reports the number
\* of groups in ngroups (or leaves it 0), the second fills the buffer with
\* the base gid and then the groups listing the user, or fails (ret < 0)
GetgrouplistAnswers(user, gid) ==
    LET list == <<gid>> \o Members(user)
    IN  {[ngroups |-> Len(list), ret |-> Len(list), list |-> list],
         [ngroups |-> Len(list), ret |-> -1, list |-> list],
         [ngroups |-> 0, ret |-> -1, list |-> <<>>]}

\* no lookup call was made yet
NoAnswer == [ret |-> "none", ent |-> None]

-----------------------------------------------------------------------------
(* UserIds and the lookups of one name *)

UserIds(uid, gid, group_list) == [uid |-> uid, gid |-> gid, group_list |-> group_list]
DefaultUserIds == UserIds(None, None, None)

\* a lookup that reads pw_gid where pw_uid is meant
lookup_user_gid_as_uid(user, fallback, ans) ==
    IF ans.ret = "0" /\ ans.ent # None
    THEN [ok |-> TRUE, err |-> NoResult,
          ids |-> UserIds(Some(Unwrap(ans.ent).pw_gid), Some(Unwrap(ans.ent).pw_gid), None)]
    ELSE [ok |-> FALSE, err |-> SysError("User not found"), ids |-> DefaultUserIds]

\* lookup_user after its retry loop ended with answer `ans`
lookup_user(user, fallback, ans) ==
    IF ans.ret # "0" \/ ans.ent = None
    THEN IF ~fallback
         THEN IF ans.ret = "ENOENT" THEN [ok |-> FALSE, err |-> SysError("User not found"), ids |-> DefaultUserIds]
              ELSE IF ans.ret # "0" THEN [ok |-> FALSE, err |-> SysError("Failed to look up user"), ids |-> DefaultUserIds]
              ELSE [ok |-> FALSE, err |-> SysError("User not found"), ids |-> DefaultUserIds]
         ELSE IF ~IsUtf8(user)
              THEN [ok |-> FALSE, err |-> SysError("User not found and username is not valid UTF-8"), ids |-> DefaultUserIds]
              ELSE IF ParseId(user) = None
                   THEN [ok |-> FALSE, err |-> SysError("User not found and username is not a valid numeric ID"), ids |-> DefaultUserIds]
                   ELSE [ok |-> TRUE, err |-> NoResult, ids |-> UserIds(ParseId(user), None, None)]
    ELSE [ok |-> TRUE, err |-> NoResult,
          ids |-> UserIds(Some(Unwrap(ans.ent).pw_uid), Some(Unwrap(ans.ent).pw_gid), None)]

\* a lookup that takes a numeric name as an id whether or not the caller
\* enabled the fallback
lookup_group_ignores_fallback(group, fallback, ans) ==
    IF ans.ret # "0" \/ ans.ent = None
    THEN IF ~IsUtf8(group) \/ ParseId(group) = None
         THEN [ok |-> FALSE, err |-> SysError("Group not found and group is not a valid number"), gid |-> 0]
         ELSE [ok |-> TRUE, err |-> NoResult, gid |-> Unwrap(ParseId(group))]
    ELSE [ok |-> TRUE, err |-> NoResult, gid |-> Unwrap(ans.ent)]

\* lookup_group after its retry loop ended with answer `ans`
lookup_group(group, fallback, ans) ==
    IF ans.ret # "0" \/ ans.ent = None
    THEN IF ~fallback
         THEN IF ans.ret = "ENOENT" THEN [ok |-> FALSE, err |-> SysError("Group not found"), gid |-> 0]
              ELSE IF ans.ret # "0" THEN [ok |-> FALSE, err |-> SysError("Failed to look up group"), gid |-> 0]
              ELSE [ok |-> FALSE, err |-> SysError("Group not found"), gid |-> 0]
         ELSE IF ~IsUtf8(group) \/ ParseId(group) = None
              THEN [ok |-> FALSE, err |-> SysError("Group not found and group is not a valid number"), gid |-> 0]
              ELSE [ok |-> TRUE, err |-> NoResult, gid |-> Unwrap(ParseId(group))]
    ELSE [ok |-> TRUE, err |-> NoResult, gid |-> Unwrap(ans.ent)]

\* a query whose buffer is taken whatever the two calls returned
default_group_list_unchecked(ans) == Some(ans.list)

\* default_group_list: Some(groups) when the first call reported a count and
\* the sized second call succeeded, None otherwise
default_group_list(ans) ==
    IF ans.ngroups > 0 /\ ans.ret >= 0
    THEN Some(SubSeq(ans.list, 1, ans.ngroups))
    ELSE None

-----------------------------------------------------------------------------
(* The order of the steps *)

\* a changed order: the chroot before the names are looked up
ApplyOrder_chroot_before_lookup == <<"preload", "do_chroot", "lookup_ids", "do_idchange">>

\* a changed order: the names are looked up before the preload
ApplyOrder_preload_late == <<"lookup_ids", "preload", "do_chroot", "do_idchange">>

\* apply(): preload, then lookup_ids, then do_chroot, then do_idchange
ApplyOrder == <<"preload", "lookup_ids", "do_chroot", "do_idchange">>

\* a changed order: the root is changed before the directory is entered
ChrootOrder_chroot_first == <<"chroot", "chdir", "chdir_root">>

\* do_chroot: chdir(path), chroot(path), chdir("/")
ChrootOrder == <<"chdir", "chroot", "chdir_root">>

\* a group that does not replace the gid the user lookup stored
set_gid_keeps_user_gid(i, gid) == IF i.gid # None THEN i ELSE [i EXCEPT !.gid = Some(gid)]

\* lookup_ids: `ids.gid = Some(Self::lookup_group(group, ..)?)`
set_gid(i, gid) == [i EXCEPT !.gid = Some(gid)]

\* a changed order: the user id first
IdChangeOrder_setuid_first == <<"setuid", "setgroups", "setgid">>

\* do_idchange: setgroups, then setgid, then setuid
IdChangeOrder == <<"setgroups", "setgid", "setuid">>

FirstPc(p) ==
    CASE p = "preload" -> "preload"
      [] p = "lookup_ids" -> "lookup_user"
      [] p = "do_chroot" -> "do_chroot"
      [] p = "do_idchange" -> "do_idchange"

PhaseIndex(p) == CHOOSE i \in DOMAIN ApplyOrder : ApplyOrder[i] = p

\* the step of apply() after step p, "done" after the last one
NextPhase(p) ==
    IF PhaseIndex(p) < Len(ApplyOrder) THEN ApplyOrder[PhaseIndex(p) + 1] ELSE "done"

\* a check that lets every caller through
uidcheck_always(e) == TRUE

\* a check with the test inverted
uidcheck_inverted(e) == e # 0

\* geteuid().is_root()
uidcheck(e) == e = 0

\* setgroups that is called whether or not a gid was resolved
Applicable_setgroups_always(step, i) ==
    IF step = "setuid" THEN IsSome(i.uid)
    ELSE IF step = "setgroups" THEN TRUE
    ELSE IsSome(i.gid)

\* the `if let Some(..)` guarding a step of do_idchange
Applicable(step, i) ==
    IF step = "setuid" THEN IsSome(i.uid) ELSE IsSome(i.gid)

\* the first step of do_idchange after position k that its guards let run
NextIdStep(k, i) ==
    LET later == {j \in DOMAIN IdChangeOrder : j > k /\ Applicable(IdChangeOrder[j], i)}
    IN  IF later = {} THEN "return"
        ELSE IdChangeOrder[CHOOSE j \in later : \A m \in later : j <= m]

IdStepIndex(step) == CHOOSE j \in DOMAIN IdChangeOrder : IdChangeOrder[j] = step

\* the Vec handed on as it is, duplicates kept
HashSetOrders_no_dedup(s) == {s}

\* groups.into_iter().collect::<HashSet<_>>().into_iter().collect(): each
\* distinct element once, in an order the hasher decides
HashSetOrders(s) ==
    LET S == Range(s)
    IN  {q \in [1..Cardinality(S) -> S] : Range(q) = S}

Event(call, ok) == [call |-> call, ok |-> ok]

MutatingCalls == {"chdir", "chroot", "chdir_root", "setgroups", "setgid", "setuid"}
LookupCalls == {"getpwnam_r", "getgrnam_r"}

-----------------------------------------------------------------------------
(* Initial state: PrivDrop::default() in a process started as root or not *)

DefaultPrivDrop ==
    [chroot |-> None, user |-> None, group |-> None, group_list |-> None,
     include_default_supplementary_groups |-> FALSE,
     fallback_to_ids_if_names_are_numeric |-> FALSE]

Snapshot ==
    [cfg |-> cfg, euid |-> euid, egid |-> egid, sgroups |-> sgroups,
     root |-> root, cwd |-> cwd]

Start ==
    /\ cfg = DefaultPrivDrop
    /\ pc = "build"
    /\ phase = "build"
    /\ ids = DefaultUserIds
    /\ bufsize = INITIAL_BUFFER_SIZE
    /\ list_acc = <<>>
    /\ groups = <<>>
    /\ unique_groups = <<>>
    /\ chroot_dir = None
    /\ result = NoResult
    /\ \E e \in {0, 500} :
          /\ euid = e
          /\ egid = e
          /\ sgroups = IF e = 0 THEN {0, 10} ELSE {500}
    /\ root = <<>>
    /\ cwd = <<"srv">>
    /\ trace = <<>>
    /\ entry = [cfg |-> DefaultPrivDrop, euid |-> euid, egid |-> egid,
                sgroups |-> sgroups, root |-> <<>>, cwd |-> <<"srv">>]
    /\ applies = 0
    /\ dropped = FALSE
    /\ answer = NoAnswer
    /\ prev = [phase |-> "build", result |-> NoResult]

\* the setter calls are not recorded
Init == Start /\ log = [on |-> FALSE, calls |-> <<>>]

\* the setter calls are recorded
InitLogged == Start /\ log = [on |-> TRUE, calls |-> <<>>]

-----------------------------------------------------------------------------
(* The builder *)

builder_frame == <<entry, applies, dropped, prev>>

\* the call of `setter` with argument `arg` is added to the recorded calls
Record(setter, arg) ==
    /\ log.on => Len(log.calls) < MaxSetterCalls
    /\ log' = IF log.on
              THEN [log EXCEPT !.calls = Append(@, [setter |-> setter, arg |-> arg])]
              ELSE log

\* a group() that also forgets the group list
group_resets_group_list(name) ==
    /\ pc = "build"
    /\ cfg' = [cfg EXCEPT !.group = Some(name), !.group_list = None]
    /\ Record("group", name)
    /\ UNCHANGED <<pc, phase, local_vars, result, os_vars, trace, builder_frame>>

chroot(path) ==
    /\ pc = "build"
    /\ cfg' = [cfg EXCEPT !.chroot = Some(path)]
    /\ Record("chroot", path)
    /\ UNCHANGED <<pc, phase, local_vars, result, os_vars, trace, builder_frame>>

user(name) ==
    /\ pc = "build"
    /\ cfg' = [cfg EXCEPT !.user = Some(name)]
    /\ Record("user", name)
    /\ UNCHANGED <<pc, phase, local_vars, result, os_vars, trace, builder_frame>>

group(name) ==
    /\ pc = "build"
    /\ cfg' = [cfg EXCEPT !.group = Some(name)]
    /\ Record("group", name)
    /\ UNCHANGED <<pc, phase, local_vars, result, os_vars, trace, builder_frame>>

include_default_supplementary_groups ==
    /\ pc = "build"
    /\ cfg' = [cfg EXCEPT !.include_default_supplementary_groups = TRUE]
    /\ Record("include_default_supplementary_groups", <<>>)
    /\ UNCHANGED <<pc, phase, local_vars, result, os_vars, trace, builder_frame>>

fallback_to_ids_if_names_are_numeric ==
    /\ pc = "build"
    /\ cfg' = [cfg EXCEPT !.fallback_to_ids_if_names_are_numeric = TRUE]
    /\ Record("fallback_to_ids_if_names_are_numeric", <<>>)
    /\ UNCHANGED <<pc, phase, local_vars, result, os_vars, trace, builder_frame>>

group_list(list) ==
    /\ pc = "build"
    /\ cfg' = [cfg EXCEPT !.group_list = Some(list)]
    /\ Record("group_list", list)
    /\ UNCHANGED <<pc, phase, local_vars, result, os_vars, trace, builder_frame>>

-----------------------------------------------------------------------------
(* apply() *)

\* control moves to step p of apply(), or apply() returns Ok(())
GoPhase(p) ==
    IF p = "done"
    THEN pc' = "done" /\ phase' = phase /\ result' = OkResult
    ELSE pc' = FirstPc(p) /\ phase' = p /\ result' = result

\* an error that is dropped: apply() goes on to return Ok(())
Fail_swallowed(err) == pc' = "done" /\ phase' = phase /\ result' = OkResult

\* the `?` operator: apply() returns the error
Fail(err) == pc' = "done" /\ phase' = phase /\ result' = err

apply ==
    /\ pc = "build"
    /\ entry' = Snapshot
    /\ applies' = applies + 1
    /\ trace' = <<>>
    /\ ids' = DefaultUserIds
    /\ pc' = FirstPc(ApplyOrder[1])
    /\ phase' = ApplyOrder[1]
    /\ UNCHANGED <<cfg, bufsize, list_acc, groups, unique_groups, chroot_dir,
                   result, os_vars, dropped, answer, prev, log>>

\* strerror, setlocale, time, localtime: nothing of the model's state changes
preload ==
    /\ pc = "preload"
    /\ trace' = Append(trace, Event("preload", TRUE))
    /\ GoPhase(NextPhase("preload"))
    /\ UNCHANGED <<cfg, local_vars, os_vars, hist_vars>>

-----------------------------------------------------------------------------
(* lookup_ids *)

\* getpwnam_r / getgrnam_r answered ERANGE: double the buffer and call again
Retry(at) ==
    /\ pc = at
    /\ bufsize < INITIAL_BUFFER_SIZE * 2^MaxRetries
    /\ bufsize' = bufsize * 2
    /\ UNCHANGED <<cfg, pc, phase, ids, list_acc, groups, unique_groups, chroot_dir,
                   answer, result, os_vars, trace, hist_vars>>

lookup_ids_user_none ==
    /\ pc = "lookup_user"
    /\ cfg.user = None
    /\ pc' = "lookup_group"
    /\ UNCHANGED <<cfg, phase, local_vars, result, os_vars, trace, hist_vars>>

lookup_ids_user_retry ==
    /\ cfg.user # None
    /\ ~HasNul(Unwrap(cfg.user))
    /\ Retry("lookup_user")

lookup_ids_user ==
    /\ pc = "lookup_user"
    /\ cfg.user # None
    /\ IF HasNul(Unwrap(cfg.user))
       THEN /\ Fail(SysError("Invalid username"))
            /\ UNCHANGED <<ids, trace, answer>>
       ELSE \E ans \in GetpwnamAnswers(Unwrap(cfg.user)) :
              LET r == lookup_user(Unwrap(cfg.user),
                                   cfg.fallback_to_ids_if_names_are_numeric, ans)
              IN  /\ trace' = Append(trace, Event("getpwnam_r", r.ok))
                  /\ answer' = ans
                  /\ IF r.ok
                     THEN /\ ids' = r.ids
                          /\ pc' = "lookup_group"
                          /\ UNCHANGED <<phase, result>>
                     ELSE /\ Fail(r.err)
                          /\ UNCHANGED ids
    /\ bufsize' = INITIAL_BUFFER_SIZE
    /\ UNCHANGED <<cfg, list_acc, groups, unique_groups, chroot_dir, os_vars, hist_vars>>

lookup_ids_group_none ==
    /\ pc = "lookup_group"
    /\ cfg.group = None
    /\ pc' = "lookup_list"
    /\ UNCHANGED <<cfg, phase, local_vars, result, os_vars, trace, hist_vars>>

lookup_ids_group_retry ==
    /\ cfg.group # None
    /\ ~HasNul(Unwrap(cfg.group))
    /\ Retry("lookup_group")

lookup_ids_group ==
    /\ pc = "lookup_group"
    /\ cfg.group # None
    /\ IF HasNul(Unwrap(cfg.group))
       THEN /\ Fail(SysError("Invalid group name"))
            /\ UNCHANGED <<ids, trace, answer>>
       ELSE \E ans \in GetgrnamAnswers(Unwrap(cfg.group)) :
              LET r == lookup_group(Unwrap(cfg.group),
                                    cfg.fallback_to_ids_if_names_are_numeric, ans)
              IN  /\ trace' = Append(trace, Event("getgrnam_r", r.ok))
                  /\ answer' = ans
                  /\ IF r.ok
                     THEN /\ ids' = set_gid(ids, r.gid)
                          /\ pc' = "lookup_list"
                          /\ UNCHANGED <<phase, result>>
                     ELSE /\ Fail(r.err)
                          /\ UNCHANGED ids
    /\ bufsize' = INITIAL_BUFFER_SIZE
    /\ UNCHANGED <<cfg, list_acc, groups, unique_groups, chroot_dir, os_vars, hist_vars>>

\* no group list: lookup_ids returns Ok(ids)
lookup_ids_list_none ==
    /\ pc = "lookup_list"
    /\ cfg.group_list = None
    /\ GoPhase(NextPhase("lookup_ids"))
    /\ UNCHANGED <<cfg, local_vars, os_vars, trace, hist_vars>>

\* the loop over the group list, at entry Len(list_acc) + 1
ListEntry == Unwrap(cfg.group_list)[Len(list_acc) + 1]

lookup_ids_list_retry ==
    /\ cfg.group_list # None
    /\ Len(list_acc) < Len(Unwrap(cfg.group_list))
    /\ ~HasNul(ListEntry)
    /\ Retry("lookup_list")

lookup_ids_list_entry ==
    /\ pc = "lookup_list"
    /\ cfg.group_list # None
    /\ Len(list_acc) < Len(Unwrap(cfg.group_list))
    /\ IF HasNul(ListEntry)
       THEN /\ Fail(SysError("Invalid group name"))
            /\ list_acc' = <<>>
            /\ UNCHANGED <<trace, answer>>
       ELSE \E ans \in GetgrnamAnswers(ListEntry) :
              LET r == lookup_group(ListEntry,
                                    cfg.fallback_to_ids_if_names_are_numeric, ans)
              IN  /\ trace' = Append(trace, Event("getgrnam_r", r.ok))
                  /\ answer' = ans
                  /\ IF r.ok
                     THEN /\ list_acc' = Append(list_acc, r.gid)
                          /\ UNCHANGED <<pc, phase, result>>
                     ELSE /\ Fail(r.err)
                          /\ list_acc' = <<>>
    /\ bufsize' = INITIAL_BUFFER_SIZE
    /\ UNCHANGED <<cfg, ids, groups, unique_groups, chroot_dir, os_vars, hist_vars>>

\* the loop ended: ids.group_list = Some(groups); lookup_ids returns Ok(ids)
lookup_ids_list_done ==
    /\ pc = "lookup_list"
    /\ cfg.group_list # None
    /\ Len(list_acc) = Len(Unwrap(cfg.group_list))
    /\ ids' = [ids EXCEPT !.group_list = Some(list_acc)]
    /\ list_acc' = <<>>
    /\ GoPhase(NextPhase("lookup_ids"))
    /\ UNCHANGED <<cfg, bufsize, groups, unique_groups, chroot_dir, answer, os_vars,
                   trace, hist_vars>>

\* the call in progress is answered ERANGE when the buffer cannot be doubled
\* any more: `buffer.resize(bufsize, 0)` cannot allocate (or its capacity
\* overflows), the process panics and apply() returns nothing
lookup_abort ==
    /\ \/ pc = "lookup_user" /\ cfg.user # None /\ ~HasNul(Unwrap(cfg.user))
       \/ pc = "lookup_group" /\ cfg.group # None /\ ~HasNul(Unwrap(cfg.group))
       \/ /\ pc = "lookup_list" /\ cfg.group_list # None
          /\ Len(list_acc) < Len(Unwrap(cfg.group_list))
          /\ ~HasNul(ListEntry)
    /\ bufsize >= INITIAL_BUFFER_SIZE * 2^MaxRetries
    /\ pc' = "aborted"
    /\ UNCHANGED <<cfg, phase, local_vars, result, os_vars, trace, hist_vars>>

-----------------------------------------------------------------------------
(* do_chroot *)

\* control moves to the call of do_chroot after `step`, or do_chroot returns
\* Ok(self)
GoChrootStep(step) ==
    LET k == CHOOSE j \in DOMAIN ChrootOrder : ChrootOrder[j] = step
    IN  IF k = Len(ChrootOrder)
        THEN GoPhase(NextPhase("do_chroot"))
        ELSE pc' = ChrootOrder[k + 1] /\ UNCHANGED <<phase, result>>

\* no chroot configured: do_chroot returns Ok(self)
do_chroot_none ==
    /\ pc = "do_chroot"
    /\ cfg.chroot = None
    /\ GoPhase(NextPhase("do_chroot"))
    /\ UNCHANGED <<cfg, local_vars, os_vars, trace, hist_vars>>

\* self.chroot.take(), then uidcheck
do_chroot_uidcheck ==
    /\ pc = "do_chroot"
    /\ cfg.chroot # None
    /\ cfg' = [cfg EXCEPT !.chroot = None]
    /\ chroot_dir' = cfg.chroot
    /\ IF uidcheck(euid)
       THEN pc' = ChrootOrder[1] /\ UNCHANGED <<phase, result>>
       ELSE Fail(RootRequired)
    /\ UNCHANGED <<ids, bufsize, list_acc, groups, unique_groups, answer, os_vars, trace,
                   hist_vars>>

\* unistd::chdir(&chroot): the path is resolved from the current root
do_chroot_chdir ==
    /\ pc = "chdir"
    /\ \/ /\ cwd' = root \o Unwrap(chroot_dir)
          /\ trace' = Append(trace, Event("chdir", TRUE))
          /\ GoChrootStep("chdir")
       \/ /\ trace' = Append(trace, Event("chdir", FALSE))
          /\ Fail(SysError("Failed to change to chroot directory"))
          /\ UNCHANGED cwd
    /\ UNCHANGED <<cfg, local_vars, euid, egid, sgroups, root, hist_vars>>

\* unistd::chroot(&chroot): the kernel lets only root change the root
do_chroot_chroot ==
    /\ pc = "chroot"
    /\ \/ /\ euid = 0
          /\ root' = root \o Unwrap(chroot_dir)
          /\ trace' = Append(trace, Event("chroot", TRUE))
          /\ GoChrootStep("chroot")
       \/ /\ trace' = Append(trace, Event("chroot", FALSE))
          /\ Fail(SysError("Failed to change root directory"))
          /\ UNCHANGED root
    /\ UNCHANGED <<cfg, local_vars, euid, egid, sgroups, cwd, hist_vars>>

\* unistd::chdir("/"), then do_chroot returns Ok(self)
do_chroot_chdir_root ==
    /\ pc = "chdir_root"
    /\ \/ /\ cwd' = root
          /\ trace' = Append(trace, Event("chdir_root", TRUE))
          /\ GoChrootStep("chdir_root")
       \/ /\ trace' = Append(trace, Event("chdir_root", FALSE))
          /\ Fail(SysError("Failed to change to root directory after chroot"))
          /\ UNCHANGED cwd
    /\ UNCHANGED <<cfg, local_vars, euid, egid, sgroups, root, hist_vars>>

-----------------------------------------------------------------------------
(* do_idchange *)

\* control moves to the next step of do_idchange after position k, or
\* do_idchange returns Ok(())
GoIdStep(k) ==
    IF NextIdStep(k, ids) = "return"
    THEN GoPhase(NextPhase("do_idchange"))
    ELSE pc' = NextIdStep(k, ids) /\ UNCHANGED <<phase, result>>

\* default groups that are left out, without an error, when they cannot be
\* asked for
DefaultGroupsStep_skips(c, i) ==
    IF c.include_default_supplementary_groups /\ c.user # None /\ i.gid # None
    THEN "default_group_list"
    ELSE "collect"

\* `if self.include_default_supplementary_groups`: ask for the default groups
\* when a user name and a gid are there, fail when one is missing
DefaultGroupsStep(c, i) ==
    IF c.include_default_supplementary_groups
    THEN IF c.user # None /\ i.gid # None THEN "default_group_list" ELSE "fail"
    ELSE "collect"

\* uidcheck, then the decision whether default groups can be asked for
do_idchange_uidcheck ==
    /\ pc = "do_idchange"
    /\ groups' = <<>>
    /\ unique_groups' = <<>>
    /\ IF ~uidcheck(euid)
       THEN Fail(RootRequired)
       ELSE IF DefaultGroupsStep(cfg, ids) = "fail"
            THEN Fail(NoDefaultGroups)
            ELSE pc' = DefaultGroupsStep(cfg, ids) /\ UNCHANGED <<phase, result>>
    /\ UNCHANGED <<cfg, ids, bufsize, list_acc, chroot_dir, answer, os_vars, trace,
                   hist_vars>>

\* Self::default_group_list(user, gid)?, groups.extend(group_list)
do_idchange_default_groups ==
    /\ pc = "default_group_list"
    /\ IF HasNul(Unwrap(cfg.user))
       THEN /\ Fail(SysError("Invalid username"))
            /\ UNCHANGED <<groups, trace, answer>>
       ELSE \E ans \in GetgrouplistAnswers(Unwrap(cfg.user), Unwrap(ids.gid)) :
              LET r == default_group_list(ans)
              IN  /\ trace' = Append(trace, Event("getgrouplist", r # None))
                  /\ answer' = ans
                  /\ groups' = IF r # None THEN groups \o Unwrap(r) ELSE groups
                  /\ pc' = "collect"
                  /\ UNCHANGED <<phase, result>>
    /\ UNCHANGED <<cfg, ids, bufsize, list_acc, unique_groups, chroot_dir, os_vars, hist_vars>>

\* the explicit groups, then the primary gid, then the HashSet
do_idchange_collect ==
    /\ pc = "collect"
    /\ LET explicit == IF ids.group_list # None
                       THEN groups \o Unwrap(ids.group_list)
                       ELSE groups
       IN  IF ids.gid # None
           THEN /\ groups' = Append(explicit, Unwrap(ids.gid))
                /\ \E u \in HashSetOrders(Append(explicit, Unwrap(ids.gid))) :
                      unique_groups' = u
           ELSE /\ groups' = explicit
                /\ UNCHANGED unique_groups
    /\ GoIdStep(0)
    /\ UNCHANGED <<cfg, ids, bufsize, list_acc, chroot_dir, answer, os_vars, trace,
                   hist_vars>>

\* libc::setgroups(len, ptr): replaces the whole supplementary list; root only
do_idchange_setgroups ==
    /\ pc = "setgroups"
    /\ \/ /\ euid = 0
          /\ sgroups' = Range(unique_groups)
          /\ trace' = Append(trace, Event("setgroups", TRUE))
          /\ GoIdStep(IdStepIndex("setgroups"))
       \/ /\ trace' = Append(trace, Event("setgroups", FALSE))
          /\ Fail(SysError("Unable to set supplementary groups"))
          /\ UNCHANGED sgroups
    /\ UNCHANGED <<cfg, local_vars, euid, egid, root, cwd, hist_vars>>

\* unistd::setgid(gid)?: root may take any gid, others only their own
do_idchange_setgid ==
    /\ pc = "setgid"
    /\ \/ /\ euid = 0 \/ egid = Unwrap(ids.gid)
          /\ egid' = Unwrap(ids.gid)
          /\ trace' = Append(trace, Event("setgid", TRUE))
          /\ GoIdStep(IdStepIndex("setgid"))
       \/ /\ trace' = Append(trace, Event("setgid", FALSE))
          /\ Fail(FromNix("EPERM"))
          /\ UNCHANGED egid
    /\ UNCHANGED <<cfg, local_vars, euid, sgroups, root, cwd, hist_vars>>

\* unistd::setuid(uid)?: root may take any uid, others only their own
do_idchange_setuid ==
    /\ pc = "setuid"
    /\ \/ /\ euid = 0 \/ euid = Unwrap(ids.uid)
          /\ euid' = Unwrap(ids.uid)
          /\ trace' = Append(trace, Event("setuid", TRUE))
          /\ GoIdStep(IdStepIndex("setuid"))
       \/ /\ trace' = Append(trace, Event("setuid", FALSE))
          /\ Fail(FromNix("EAGAIN"))
          /\ UNCHANGED euid
    /\ UNCHANGED <<cfg, local_vars, egid, sgroups, root, cwd, hist_vars>>

-----------------------------------------------------------------------------
(* The caller *)

\* apply() has returned; the caller builds another PrivDrop::default()
new_privdrop ==
    /\ pc = "done"
    /\ applies < MaxApplies
    /\ pc' = "build"
    /\ phase' = "build"
    /\ cfg' = DefaultPrivDrop
    /\ result' = NoResult
    /\ dropped' = (dropped \/ (IsOk(result) /\ entry.euid = 0 /\ euid # 0))
    /\ ids' = DefaultUserIds
    /\ groups' = <<>>
    /\ unique_groups' = <<>>
    /\ chroot_dir' = None
    /\ trace' = <<>>
    /\ entry' = [Snapshot EXCEPT !.cfg = DefaultPrivDrop]
    /\ answer' = NoAnswer
    /\ prev' = [phase |-> phase, result |-> result]
    /\ log' = [log EXCEPT !.calls = <<>>]
    /\ UNCHANGED <<bufsize, list_acc, os_vars, applies>>

\* the steps of one apply() call
ApplySteps ==
    \/ apply
    \/ preload
    \/ lookup_ids_user_none
    \/ lookup_ids_user_retry
    \/ lookup_ids_user
    \/ lookup_ids_group_none
    \/ lookup_ids_group_retry
    \/ lookup_ids_group
    \/ lookup_ids_list_none
    \/ lookup_ids_list_retry
    \/ lookup_ids_list_entry
    \/ lookup_ids_list_done
    \/ lookup_abort
    \/ do_chroot_none
    \/ do_chroot_uidcheck
    \/ do_chroot_chdir
    \/ do_chroot_chroot
    \/ do_chroot_chdir_root
    \/ do_idchange_uidcheck
    \/ do_idchange_default_groups
    \/ do_idchange_collect
    \/ do_idchange_setgroups
    \/ do_idchange_setgid
    \/ do_idchange_setuid

\* one PrivDrop value is built and applied
Next ==
    \/ \E path \in ChrootInputs : chroot(path)
    \/ \E name \in UserInputs : user(name)
    \/ \E name \in GroupInputs : group(name)
    \/ \E list \in GroupLists : group_list(list)
    \/ include_default_supplementary_groups
    \/ fallback_to_ids_if_names_are_numeric
    \/ ApplySteps

Spec == Init /\ [][Next]_vars

\* a process that builds and applies PrivDrop values one after the other
NextReapply ==
    \/ \E path \in ChrootInputs : chroot(path)
    \/ \E name \in ReapplyUserInputs : user(name)
    \/ \E name \in ReapplyGroupInputs : group(name)
    \/ \E list \in ReapplyGroupLists : group_list(list)
    \/ include_default_supplementary_groups
    \/ fallback_to_ids_if_names_are_numeric
    \/ ApplySteps
    \/ new_privdrop

SpecReapply == Init /\ [][NextReapply]_vars

\* one PrivDrop value whose names exercise the numeric fallback
NextResolve ==
    \/ \E path \in ChrootInputs : chroot(path)
    \/ \E name \in ResolveUserInputs : user(name)
    \/ \E name \in ResolveGroupInputs : group(name)
    \/ \E list \in ResolveGroupLists : group_list(list)
    \/ include_default_supplementary_groups
    \/ fallback_to_ids_if_names_are_numeric
    \/ ApplySteps

SpecResolve == Init /\ [][NextResolve]_vars

\* what the caller whose setter calls are recorded configures
BuilderUserInputs == {svc, num7}
BuilderGroupInputs == {g1, num9}
BuilderGroupLists == {<<g2>>, <<>>}

\* one PrivDrop value is built, its setter calls recorded, and applied
NextBuilder ==
    \/ \E path \in ChrootInputs : chroot(path)
    \/ \E name \in BuilderUserInputs : user(name)
    \/ \E name \in BuilderGroupInputs : group(name)
    \/ \E list \in BuilderGroupLists : group_list(list)
    \/ include_default_supplementary_groups
    \/ fallback_to_ids_if_names_are_numeric
    \/ ApplySteps

SpecBuilder == InitLogged /\ [][NextBuilder]_vars

-----------------------------------------------------------------------------
(* Vocabulary of the properties *)

Done == pc = "done"

Issued(call) == \E i \in DOMAIN trace : trace[i].call = call
Succeeded(call) == \E i \in DOMAIN trace : trace[i] = Event(call, TRUE)
NoMutatingCall == \A i \in DOMAIN trace : trace[i].call \notin MutatingCalls
AllCallsSucceeded == \A i \in DOMAIN trace : trace[i].ok

\* the process state is what it was when apply() was entered
OsUnchanged ==
    /\ euid = entry.euid
    /\ egid = entry.egid
    /\ sgroups = entry.sgroups
    /\ root = entry.root
    /\ cwd = entry.cwd

\* apply() got past lookup_ids: every configured name resolved
NamesResolved == phase # "lookup_ids"

\* the gid a group name stands for: its database entry, else its number
GidOfName(name) ==
    IF name \in DOMAIN GroupDb THEN GroupDb[name] ELSE Unwrap(ParseId(name))

\* the uid a user name stands for: its database entry, else its number
UidOfName(name) ==
    IF name \in DOMAIN PasswdDb THEN PasswdDb[name].pw_uid ELSE Unwrap(ParseId(name))

ExplicitGids ==
    IF entry.cfg.group_list = None THEN {}
    ELSE {GidOfName(Unwrap(entry.cfg.group_list)[i]) :
            i \in DOMAIN Unwrap(entry.cfg.group_list)}

-----------------------------------------------------------------------------
(* C1 *)

\* C1: in every apply(), whatever succeeds or fails, setgroups, setgid and
\* setuid are issued in that order and no chdir, chroot, setgroups or setgid
\* call follows setuid: the user-id change is the last mutating call.
C1_SetuidIsLast ==
    \A i, j \in DOMAIN trace :
        i < j =>
            /\ trace[i].call = "setuid" => trace[j].call \notin MutatingCalls
            /\ trace[i].call = "setgid" => trace[j].call # "setgroups"
            /\ trace[i].call \in {"setgroups", "setgid", "setuid"} =>
                  trace[j].call \notin {"chdir", "chroot", "chdir_root"}

\* an apply() that issued the chroot calls and all three identity calls
C1_Witness ==
    /\ Done
    /\ IsOk(result)
    /\ Succeeded("chroot")
    /\ Succeeded("setgroups")
    /\ Succeeded("setgid")
    /\ Succeeded("setuid")
    /\ trace[Len(trace)].call = "setuid"

-----------------------------------------------------------------------------
(* C2 *)

\* C2: whenever apply() changes the user id it has first replaced the whole
\* supplementary group list in the same call, for every configuration with
\* a user, the user resolved by numeric fallback included.
C2_SetgroupsBeforeSetuid ==
    \A i \in DOMAIN trace :
        trace[i] = Event("setuid", TRUE) =>
            \E j \in 1..(i - 1) : trace[j] = Event("setgroups", TRUE)

-----------------------------------------------------------------------------
(* C3 *)

\* C3: if apply() returns an error, root directory, working directory, uid,
\* gid and supplementary groups are what they were before the call.
C3_ErrorLeavesOriginalState ==
    (Done /\ IsErr(result)) => OsUnchanged

-----------------------------------------------------------------------------
(* C4 *)

\* C4: if a configured name fails to resolve, apply() returns an error having
\* issued no chdir, chroot, setgroups, setgid or setuid call and the process
\* state is unchanged; every name lookup precedes the first of those calls.
C4_ResolutionFirst ==
    /\ (phase = "lookup_ids" /\ Done) =>
          /\ IsErr(result)
          /\ NoMutatingCall
          /\ OsUnchanged
    /\ (\E i \in DOMAIN trace : trace[i].call \in LookupCalls /\ ~trace[i].ok) =>
          /\ Done
          /\ IsErr(result)
          /\ NoMutatingCall
          /\ OsUnchanged
    /\ \A i, j \in DOMAIN trace :
          (i < j /\ trace[i].call \in MutatingCalls) => trace[j].call \notin LookupCalls

\* root asked for a chroot and an identity change, and a name did not resolve
C4_Witness ==
    /\ Done
    /\ entry.euid = 0
    /\ entry.cfg.chroot # None
    /\ entry.cfg.user # None
    /\ \E i \in DOMAIN trace : trace[i].call \in LookupCalls /\ ~trace[i].ok
    /\ IsErr(result)

-----------------------------------------------------------------------------
(* C5 *)

\* no chroot, no user and no group were configured
NothingRequested ==
    /\ entry.cfg.chroot = None
    /\ entry.cfg.user = None
    /\ entry.cfg.group = None

\* C5 as stated: with no chroot, no user and no group (and no group list and
\* no default groups) configured, apply() returns success and changes
\* nothing, whatever the caller's effective uid is.
C5_NoopSucceedsForAnyUid ==
    (/\ Done
     /\ NothingRequested
     /\ entry.cfg.group_list = None
     /\ ~entry.cfg.include_default_supplementary_groups)
        => (IsOk(result) /\ OsUnchanged)

\* C5 amended: with no chroot, no user and no group configured, apply()
\* issues no mutating call and changes nothing; it returns success exactly
\* when the effective uid is 0, the names of the group list resolve and
\* default supplementary groups were not requested.  With names that resolve
\* and a non-zero effective uid it returns the root-required error, and as
\* root with default groups requested the no-default-groups error.
C5_NoopNeedsRoot ==
    (Done /\ NothingRequested) =>
        /\ OsUnchanged
        /\ NoMutatingCall
        /\ IsOk(result) <=>
              (/\ entry.euid = 0
               /\ NamesResolved
               /\ ~entry.cfg.include_default_supplementary_groups)
        /\ (NamesResolved /\ entry.euid # 0) => result = RootRequired
        /\ (/\ NamesResolved
            /\ entry.euid = 0
            /\ entry.cfg.include_default_supplementary_groups)
              => result = NoDefaultGroups

\* an empty configuration applied by a caller that is not root
C5_Witness ==
    /\ Done
    /\ NothingRequested
    /\ entry.cfg.group_list = None
    /\ entry.euid # 0
    /\ result = RootRequired

-----------------------------------------------------------------------------
(* C6 *)

\* a chroot or an identity change was configured
SomethingRequested ==
    \/ entry.cfg.chroot # None
    \/ entry.cfg.user # None
    \/ entry.cfg.group # None

\* C6: called with a non-zero effective uid, with a chroot or an identity
\* change configured and names that resolve, apply() returns the
\* root-required error, never success, and issues no chdir, chroot,
\* setgroups, setgid or setuid call (the chroot step's check comes before
\* any change of directory).
C6_NonRootRefused ==
    /\ (pc # "build" /\ entry.euid # 0) => (NoMutatingCall /\ OsUnchanged)
    /\ (Done /\ entry.euid # 0 /\ SomethingRequested) =>
          /\ ~IsOk(result)
          /\ NamesResolved => result = RootRequired

\* a caller that is not root asked for a chroot and a user, and was refused
C6_Witness ==
    /\ Done
    /\ entry.euid # 0
    /\ entry.cfg.chroot # None
    /\ entry.cfg.user # None
    /\ NamesResolved
    /\ result = RootRequired

-----------------------------------------------------------------------------
(* C7 *)

\* the groups the membership query gave, when it was asked and answered
DefaultGids ==
    IF Succeeded("getgrouplist")
    THEN {Unwrap(ids.gid)} \cup Range(Members(Unwrap(entry.cfg.user)))
    ELSE {}

\* C7: when a primary gid is resolved, the list handed to setgroups holds
\* each gid once and is, as a set, the union of the default supplementary
\* groups (if requested and available), the gids of the explicit group list
\* and the primary gid; a successful setgroups leaves exactly that set.
C7_SetgroupsArgument ==
    Issued("setgroups") =>
        /\ Len(unique_groups) = Cardinality(Range(unique_groups))
        /\ Range(unique_groups) = DefaultGids \cup ExplicitGids \cup {Unwrap(ids.gid)}
        /\ entry.cfg.include_default_supplementary_groups \/ ~Issued("getgrouplist")
        /\ (Succeeded("setgroups") /\ pc = "setgid") => sgroups = Range(unique_groups)

\* explicit groups g1, g2 and default groups g2, g3 of user svc (primary
\* gid 100): the set applied is {101, 102, 103, 100}
C7_Witness ==
    /\ entry.cfg.user = Some(svc)
    /\ entry.cfg.group = None
    /\ entry.cfg.group_list = Some(<<g1, g2>>)
    /\ entry.cfg.include_default_supplementary_groups
    /\ Succeeded("getgrouplist")
    /\ Succeeded("setgroups")
    /\ Len(groups) > Len(unique_groups)
    /\ Len(unique_groups) = 4
    /\ sgroups = {100, 101, 102, 103}

-----------------------------------------------------------------------------
(* C8 *)

\* C8: whenever apply() succeeds with an explicit group list configured, the
\* supplementary groups of the process then contain the gid of every entry
\* of the list, whatever the other options are.
C8_GroupListHeld ==
    (Done /\ IsOk(result) /\ entry.cfg.group_list # None) => ExplicitGids \subseteq sgroups

-----------------------------------------------------------------------------
(* C9 *)

\* the configuration is exactly a chroot path and a user of the database
ChrootAndKnownUser ==
    /\ entry.cfg.chroot # None
    /\ entry.cfg.user # None
    /\ Unwrap(entry.cfg.user) \in DOMAIN PasswdDb
    /\ entry.cfg.group = None
    /\ entry.cfg.group_list = None
    /\ ~entry.cfg.include_default_supplementary_groups

-----------------------------------------------------------------------------
(* C10 *)

\* C10 as stated: once an apply() has left root, every later apply() that
\* requests a chroot fails with the root-required error.
C10_LaterChrootIsRootRequired ==
    (dropped /\ Done /\ entry.cfg.chroot # None) => result = RootRequired

\* C10 amended: once an apply() has succeeded in changing the effective uid
\* to a non-zero uid, the effective uid is never 0 again over any sequence
\* of later apply() calls, and every later apply() that requests a chroot
\* fails without issuing a mutating call and without changing root
\* directory, working directory, uid, gid or supplementary groups: with the
\* root-required error when its names resolve, with the resolution error
\* otherwise.
C10_NeverRegained ==
    /\ dropped => euid # 0
    /\ (dropped /\ pc # "build") => (NoMutatingCall /\ OsUnchanged)
    /\ (dropped /\ Done /\ entry.cfg.chroot # None) =>
          /\ IsErr(result)
          /\ NamesResolved => result = RootRequired

\* after a drop, a second apply() asked for a chroot and for uid 0
C10_Witness ==
    /\ dropped
    /\ Done
    /\ entry.cfg.chroot # None
    /\ entry.cfg.user = Some(num0)
    /\ NamesResolved
    /\ result = RootRequired

-----------------------------------------------------------------------------
(* C11: the contract of the two resolvers *)

\* the value of the names that read as a non-negative integer that fits an id
NumericValue ==
    (num0 :> 0) @@ (num7 :> 7) @@ (num9 :> 9) @@ (plus7 :> 7) @@ (lead0 :> 7)

LastEvent == trace[Len(trace)]
LastCallIs(call) == trace # <<>> /\ LastEvent.call = call

\* the database answered the last lookup (no I/O error of the C library)
Answered == answer.ret \in {"0", "ENOENT"}

\* number of group lookups made so far, and the name the last one was for
GroupLookups == Cardinality({i \in DOMAIN trace : trace[i].call = "getgrnam_r"})
LastIsPrimaryGroup == cfg.group # None /\ GroupLookups = 1
LastListIndex == IF cfg.group # None THEN GroupLookups - 1 ELSE GroupLookups
LastGroupName ==
    IF LastIsPrimaryGroup THEN Unwrap(cfg.group)
    ELSE Unwrap(cfg.group_list)[LastListIndex]
\* the gid the last group lookup returned
LastGroupGid ==
    IF LastIsPrimaryGroup THEN Unwrap(ids.gid)
    ELSE IF ids.group_list # None THEN Unwrap(ids.group_list)[LastListIndex]
    ELSE list_acc[LastListIndex]

\* the contract of a resolver for one name: `indb` says the database has the
\* name, with value `want`; `numeric` is the value the name reads as; the
\* resolver returned `got` (ok) or apply() ended with `result` (not ok)
Contract(name, indb, want, numeric, ok, got, notfound) ==
    LET fallback == cfg.fallback_to_ids_if_names_are_numeric
    IN  /\ indb /\ Answered => ok /\ got = want
        /\ ~indb /\ ~fallback =>
              /\ ~ok /\ Done /\ IsErr(result)
              /\ Answered => result = SysError(notfound)
        /\ ~indb /\ fallback /\ name \in DOMAIN NumericValue => ok /\ got = numeric
        /\ ~indb /\ fallback /\ name \notin DOMAIN NumericValue =>
              ~ok /\ Done /\ IsErr(result)

\* C11: a user name in the database resolves to exactly its recorded uid and
\* gid; a name not in it fails as "not found" without the fallback, resolves to
\* the integer it reads as (with no gid) with the fallback, and fails with the
\* fallback when it does not read as one.  A group name resolves under the
\* same contract to a gid.
C11_ResolverContract ==
    /\ LastCallIs("getpwnam_r") =>
          LET name == Unwrap(cfg.user)
              indb == name \in DOMAIN PasswdDb
          IN  Contract(name, indb,
                       IF indb THEN <<Some(PasswdDb[name].pw_uid), Some(PasswdDb[name].pw_gid)>>
                       ELSE <<>>,
                       IF name \in DOMAIN NumericValue
                       THEN <<Some(NumericValue[name]), None>> ELSE <<>>,
                       LastEvent.ok, <<ids.uid, ids.gid>>, "User not found")
    /\ LastCallIs("getgrnam_r") =>
          LET name == LastGroupName
              indb == name \in DOMAIN GroupDb
          IN  Contract(name, indb,
                       IF indb THEN <<GroupDb[name]>> ELSE <<>>,
                       IF name \in DOMAIN NumericValue
                       THEN <<NumericValue[name]>> ELSE <<>>,
                       LastEvent.ok,
                       IF LastEvent.ok THEN <<LastGroupGid>> ELSE <<>>,
                       "Group not found")

\* a signed numeric user name was resolved by the fallback, and a group in the
\* list by the fallback too
C11_Witness ==
    /\ LastCallIs("getgrnam_r") /\ LastEvent.ok
    /\ ~LastIsPrimaryGroup /\ LastGroupName = lead0 /\ LastGroupGid = 7
    /\ cfg.user = Some(plus7) /\ ids.uid = Some(7)

-----------------------------------------------------------------------------
(* C12: the error tells the failing step *)

\* C12: two apply() calls that failed in different steps (resolution,
\* confinement, identity change) returned errors that differ in kind or
\* message, the root-required error of do_chroot and that of do_idchange
\* included.
C12_FailuresNameTheirPhase ==
    (Done /\ IsErr(result) /\ IsErr(prev.result) /\ prev.phase # phase) =>
        result # prev.result

-----------------------------------------------------------------------------
(* C13: the identity databases are queried before anything is changed *)

DatabaseQueries == LookupCalls \cup {"getgrouplist"}

\* C13: no query of the identity databases (user lookup, group lookups, the
\* default-group membership query) is issued after a state-changing system
\* call, also when a chroot and the default supplementary groups are both
\* configured.
C13_QueriesBeforeMutation ==
    \A i, j \in DOMAIN trace :
        (i < j /\ trace[i].call \in MutatingCalls) => trace[j].call \notin DatabaseQueries

-----------------------------------------------------------------------------
(* C14: the chroot sequence *)

ChrootCalls == {"chdir", "chroot", "chdir_root"}
IdCalls == {"setgroups", "setgid", "setuid"}

\* the calls of the current apply() that are in `calls`, in the order issued
Calls(calls) == SelectSeq(trace, LAMBDA e : e.call \in calls)

ChrootDone == <<Event("chdir", TRUE), Event("chroot", TRUE), Event("chdir_root", TRUE)>>
\* the sequence was cut short by its first failing call
ChrootFailed ==
    {<<Event("chdir", FALSE)>>,
     <<Event("chdir", TRUE), Event("chroot", FALSE)>>,
     <<Event("chdir", TRUE), Event("chroot", TRUE), Event("chdir_root", FALSE)>>}
ChrootUnderWay == {SubSeq(ChrootDone, 1, n) : n \in 0..2}

ChrootTarget == entry.root \o Unwrap(entry.cfg.chroot)

\* what holds of the three calls whenever they are issued
ChrootDiscipline ==
    /\ Calls(ChrootCalls) \in ChrootUnderWay \cup ChrootFailed \cup {ChrootDone}
    /\ Calls(ChrootCalls) \in ChrootFailed =>
          Done /\ IsErr(result) /\ Calls(IdCalls) = <<>>
    /\ Calls(IdCalls) # <<>> =>
          /\ Calls(ChrootCalls) \in {<<>>, ChrootDone}
          /\ \A i, j \in DOMAIN trace :
                (trace[i].call \in ChrootCalls /\ trace[j].call \in IdCalls) => i < j
    /\ pc # "build" /\ entry.cfg.chroot = None => Calls(ChrootCalls) = <<>>
    /\ pc # "build" /\ entry.cfg.chroot # None =>
          /\ pc = "chroot" => cwd = ChrootTarget
          /\ Succeeded("chroot") => root = ChrootTarget
          /\ Succeeded("chdir_root") => cwd = ChrootTarget /\ root = ChrootTarget
          /\ Calls(IdCalls) # <<>> => Calls(ChrootCalls) = ChrootDone

ChrootRanToItsEnd == Calls(ChrootCalls) \in ChrootFailed \cup {ChrootDone}

\* C14: with a chroot path configured and effective uid 0, apply() issues
\* exactly chdir(path), chroot(path), chdir("/") in that order before any
\* setgroups/setgid/setuid, a failing call ends the sequence and no identity
\* call follows; with no chroot path none of the three is issued.
C14_ChrootSequence ==
    /\ ChrootDiscipline
    /\ Done /\ entry.cfg.chroot # None /\ entry.euid = 0 => ChrootRanToItsEnd

\* C14 for an apply() whose names resolved: the sequence is issued (up to its
\* first failing call) exactly then
C14_ChrootSequenceOnceResolved ==
    /\ ChrootDiscipline
    /\ Done /\ entry.cfg.chroot # None /\ entry.euid = 0 /\ NamesResolved => ChrootRanToItsEnd
    /\ Done /\ ~NamesResolved => Calls(ChrootCalls) = <<>>

\* the three calls were issued and the identity was changed after them
C14_Witness ==
    /\ Done /\ IsOk(result)
    /\ Calls(ChrootCalls) = ChrootDone
    /\ Calls(IdCalls) = <<Event("setgroups", TRUE), Event("setgid", TRUE), Event("setuid", TRUE)>>

-----------------------------------------------------------------------------
(* C15: fail-stop *)

\* C15: after a failing call no further state-changing call is issued (no
\* setgid or setuid after a failed setgroups, no setuid after a failed
\* setgid), each of the six state-changing calls is issued at most once per
\* apply(), and apply() returns one result: nothing before it returns, then
\* Ok or the error of the one failing step.
C15_FailStop ==
    /\ \A i, j \in DOMAIN trace :
          (i < j /\ trace[i].call \in MutatingCalls /\ ~trace[i].ok) =>
              trace[j].call \notin MutatingCalls
    /\ \A i \in DOMAIN trace :
          (trace[i].call \in MutatingCalls \cup LookupCalls /\ ~trace[i].ok) =>
              i = Len(trace) /\ Done /\ IsErr(result)
    /\ \A i, j \in DOMAIN trace :
          (i # j /\ trace[i].call \in MutatingCalls) => trace[i].call # trace[j].call
    /\ Done <=> result # NoResult
    /\ Done /\ IsOk(result) =>
          \A i \in DOMAIN trace : trace[i].call \in MutatingCalls => trace[i].ok

\* setgroups failed, and it is the last call of an apply() that returned its
\* error
C15_Witness ==
    /\ Done /\ result = SysError("Unable to set supplementary groups")
    /\ LastEvent = Event("setgroups", FALSE)
    /\ Calls(ChrootCalls) = ChrootDone

-----------------------------------------------------------------------------
(* C16: default groups that cannot be asked for *)

DefaultGroupsUnavailable ==
    /\ entry.cfg.include_default_supplementary_groups
    /\ entry.cfg.user = None \/ ids.gid = None

\* C16: when the default supplementary groups are requested and no user is
\* configured or no primary gid was resolved, apply() fails with the
\* default-group-lookup-unavailable error and issues no setgroups, setgid or
\* setuid.
C16_DefaultGroupsUnavailable ==
    (Done /\ DefaultGroupsUnavailable) =>
        result = NoDefaultGroups /\ Calls(IdCalls) = <<>>

\* C16 as the code has it: such an apply() always fails and issues none of the
\* identity calls nor the membership query; its error is the
\* default-group-lookup-unavailable one when a root caller reaches
\* do_idchange, the root-required one when another caller does, and the error
\* of the lookup or chroot call that failed before otherwise.
C16_UnavailableFailsWithoutIdCalls ==
    /\ (pc # "build" /\ entry.cfg.include_default_supplementary_groups
           /\ (Calls(IdCalls) # <<>> \/ Issued("getgrouplist"))) =>
          entry.cfg.user # None /\ ids.gid # None
    /\ (Done /\ DefaultGroupsUnavailable) =>
          /\ IsErr(result)
          /\ Calls(IdCalls) = <<>> /\ ~Issued("getgrouplist")
          /\ (phase = "do_idchange" /\ entry.euid = 0) <=> result = NoDefaultGroups
          /\ (phase = "do_idchange" /\ entry.euid # 0) => result = RootRequired
          /\ phase # "do_idchange" =>
                \/ ~AllCallsSucceeded
                \/ phase = "do_chroot" /\ entry.euid # 0 /\ result = RootRequired

\* a root caller asked for the default groups of a user resolved by the
\* numeric fallback, inside a chroot
C16_Witness ==
    /\ Done /\ result = NoDefaultGroups
    /\ entry.cfg.user # None /\ ids.uid # None /\ ids.gid = None
    /\ Calls(ChrootCalls) = ChrootDone

-----------------------------------------------------------------------------
(* C17: the membership query is best-effort *)

\* the membership query was made and reported no groups or failed
QueryFailed == Issued("getgrouplist") /\ (answer.ngroups = 0 \/ answer.ret < 0)

\* C17: when the membership query reports no groups or fails, apply() does
\* not return an error because of it but goes on, and the supplementary set
\* it applies is exactly the explicit group list (if any) united with the
\* primary gid.
C17_QueryIsBestEffort ==
    QueryFailed =>
        /\ LastCallIs("getgrouplist") => pc \in {"collect", "setgroups"} /\ result = NoResult
        /\ Issued("setgroups") =>
              Range(unique_groups) = ExplicitGids \cup {Unwrap(ids.gid)}
        /\ Succeeded("setgroups") /\ ~Issued("setgid") =>
              sgroups = ExplicitGids \cup {Unwrap(ids.gid)}
        /\ Done /\ IsErr(result) =>
              LastEvent.call \in IdCalls /\ ~LastEvent.ok
        /\ Done /\ (\A i \in DOMAIN trace : trace[i].call \in IdCalls => trace[i].ok) =>
              IsOk(result) /\ sgroups = ExplicitGids \cup {Unwrap(ids.gid)}

\* the query failed for a user who is a member of further groups, and apply()
\* succeeded with an explicit list
C17_Witness ==
    /\ QueryFailed /\ answer.ngroups > 0
    /\ Done /\ IsOk(result)
    /\ entry.cfg.user = Some(svc) /\ entry.cfg.group_list = Some(<<g1>>)
    /\ sgroups = {100, 101}

-----------------------------------------------------------------------------
(* C18: the configured group overrides the user's group *)

\* lookup_ids has returned Ok(ids) to the current apply()
Resolved == pc # "build" /\ phase \in {"do_chroot", "do_idchange"}

\* what holds when `gid` is the primary gid: setgid and setgroups get it
PrimaryGidIs(gid) ==
    /\ ids.gid = Some(gid)
    /\ Succeeded("setgid") => egid = gid
    /\ Issued("setgroups") => gid \in Range(unique_groups)
    /\ Succeeded("setgroups") /\ ~Issued("setgid") => gid \in sgroups

\* C18: with a user and a group configured and resolved, the gid given to
\* setgid and put in the supplementary set is the group's and not the one of
\* the user's database entry; with only a user, resolved by name, it is the
\* gid of the user's entry; with only a group, setgroups and setgid are
\* applied with its gid and setuid is not called.
C18_GroupOverridesUserGid ==
    Resolved =>
        LET u == entry.cfg.user
            g == entry.cfg.group
        IN  /\ (u # None /\ g # None) =>
                  /\ PrimaryGidIs(GidOfName(Unwrap(g)))
                  /\ (Unwrap(u) \in DOMAIN PasswdDb
                        /\ PasswdDb[Unwrap(u)].pw_gid # GidOfName(Unwrap(g))
                        /\ PasswdDb[Unwrap(u)].pw_gid \notin ExplicitGids \cup DefaultGids) =>
                        /\ Succeeded("setgid") => egid # PasswdDb[Unwrap(u)].pw_gid
                        /\ Issued("setgroups") =>
                              PasswdDb[Unwrap(u)].pw_gid \notin Range(unique_groups)
            /\ (u # None /\ g = None /\ Unwrap(u) \in DOMAIN PasswdDb) =>
                  PrimaryGidIs(PasswdDb[Unwrap(u)].pw_gid)
            /\ (u = None /\ g # None) =>
                  /\ PrimaryGidIs(GidOfName(Unwrap(g)))
                  /\ ~Issued("setuid") /\ euid = entry.euid
                  /\ Done /\ IsOk(result) =>
                        /\ Succeeded("setgroups") /\ Succeeded("setgid")
                        /\ egid = GidOfName(Unwrap(g))
                        /\ sgroups = ExplicitGids \cup {GidOfName(Unwrap(g))}

\* a user of the database was applied together with another group
C18_Witness ==
    /\ Done /\ IsOk(result)
    /\ entry.cfg.user = Some(svc) /\ entry.cfg.group = Some(g1)
    /\ egid = GroupDb[g1] /\ euid = PasswdDb[svc].pw_uid
    /\ PasswdDb[svc].pw_gid \notin sgroups

-----------------------------------------------------------------------------
(* C19: the retry loop of the lookups *)

\* C19: a lookup starts with a buffer of 4096 bytes and doubles it each time
\* the call is answered ERANGE, and the loop is bounded: it ends with a result
\* or an error even when every call is answered ERANGE.
C19_RetryLoopIsBounded ==
    /\ \E k \in 0..MaxRetries : bufsize = INITIAL_BUFFER_SIZE * 2^k
    /\ pc # "aborted"

-----------------------------------------------------------------------------
(* C20: the preload *)

\* C20: the preload is the first step of every apply(): it runs once, before
\* any lookup and any chdir or chroot, changes nothing, and apply() never
\* returns an error from it.
C20_PreloadFirst ==
    /\ trace # <<>> => trace[1] = Event("preload", TRUE)
    /\ \A i \in DOMAIN trace : i > 1 => trace[i].call # "preload"
    /\ pc = "preload" =>
          /\ trace = <<>> /\ result = NoResult
          /\ OsUnchanged /\ ids = DefaultUserIds /\ cfg = entry.cfg
    /\ pc \notin {"build", "preload"} => trace # <<>>
    /\ Done /\ IsErr(result) => phase # "preload" /\ Len(trace) >= 1

\* the second apply() of a process preloaded, looked names up and entered a
\* chroot
C20_Witness ==
    /\ applies = 2
    /\ Len(trace) >= 3 /\ trace[1] = Event("preload", TRUE)
    /\ trace[2].call \in LookupCalls
    /\ Issued("chdir")

-----------------------------------------------------------------------------
(* C21: a failed apply() keeps the user id *)

\* C21: when apply() returns an error the effective uid is the one the
\* process had when apply() was entered, whichever step failed, a failing
\* setuid included; what a failed apply() may have changed is the root and
\* working directory, the supplementary groups and the gid.
C21_ErrorKeepsUid ==
    /\ Done /\ IsErr(result) => euid = entry.euid /\ ~Succeeded("setuid")
    /\ pc # "build" /\ euid # entry.euid =>
          /\ LastEvent = Event("setuid", TRUE)
          /\ Done /\ IsOk(result)
    /\ pc = "aborted" => euid = entry.euid

\* setuid failed after the chroot, setgroups and setgid had changed the
\* process
C21_Witness ==
    /\ Done /\ result = FromNix("EAGAIN")
    /\ LastEvent = Event("setuid", FALSE)
    /\ euid = entry.euid
    /\ egid # entry.egid /\ sgroups # entry.sgroups /\ root # entry.root

-----------------------------------------------------------------------------
(* C22: what apply() leaves alone *)

\* the configuration cannot yield a primary gid: no group, and no user that
\* the database knows by name
NoGidConfigured ==
    /\ entry.cfg.group = None
    /\ entry.cfg.user = None \/ Unwrap(entry.cfg.user) \notin DOMAIN PasswdDb

-----------------------------------------------------------------------------
(* C23: the setters *)

Calls_of(setter) == {i \in DOMAIN log.calls : log.calls[i].setter = setter}

\* the argument of the last recorded call of `setter`, None when it was not
\* called
LastArg(setter) ==
    IF Calls_of(setter) = {} THEN None
    ELSE Some(log.calls[CHOOSE i \in Calls_of(setter) :
                            \A j \in Calls_of(setter) : j <= i].arg)

\* the fields as the recorded calls determine them, whatever the order of
\* calls of different setters
FieldsOfCalls ==
    [chroot |-> LastArg("chroot"),
     user |-> LastArg("user"),
     group |-> LastArg("group"),
     group_list |-> LastArg("group_list"),
     include_default_supplementary_groups |->
         Calls_of("include_default_supplementary_groups") # {},
     fallback_to_ids_if_names_are_numeric |->
         Calls_of("fallback_to_ids_if_names_are_numeric") # {}]

\* C23: each of chroot(), user(), group(), group_list() replaces its own
\* field and no other, the last call winning; a flag is on exactly when its
\* setter was called (off by default, never turned off); and what apply()
\* is entered with, hence its result, is determined by these final field
\* values and not by the order the setters were called in.
C23_SettersLastWriteWins ==
    /\ pc = "build" => cfg = FieldsOfCalls
    /\ pc # "build" => entry.cfg = FieldsOfCalls
    /\ log.calls = <<>> /\ pc = "build" => cfg = DefaultPrivDrop

\* user() was called twice with the fallback switched on in between, and
\* apply() dropped to the user of the second call
C23_Witness ==
    /\ Len(log.calls) = 3
    /\ log.calls[1] = [setter |-> "user", arg |-> svc]
    /\ log.calls[2].setter = "fallback_to_ids_if_names_are_numeric"
    /\ log.calls[3] = [setter |-> "user", arg |-> num7]
    /\ Done /\ IsOk(result) /\ euid = 7

====
